---- MODULE Spec2Model ----
(***************************************************************************)
(* Pond monitoring backend: the feeding-reminder scan and its in-memory   *)
(* reminder list, the acknowledge / list endpoints, the condition check   *)
(* with its e-mail and push notifications, the archival job and the       *)
(* database connection's error handler.                                    *)
(***************************************************************************)
EXTENDS Integers, Sequences, FiniteSets, TLC

(***************************************************************************)
(* Bounds of the model.                                                    *)
(***************************************************************************)
\* db.query calls of the feeding scan whose callback has not run yet
MaxInFlight == 1
\* accepted POST /acknowledge requests in one behaviour
MaxAcks == 2
\* the same calls where two ticks are looked at with their queries out together
MaxOverlap == 2

(***************************************************************************)
(* JavaScript values, as far as the handlers look at them.  A value is a   *)
(* record [t, v]: t is the type, v the number (or, for "numstr", the       *)
(* number whose decimal text the string holds).  "text" is a non-numeric   *)
(* string.                                                                 *)
(***************************************************************************)
Num(n) == [t |-> "number", v |-> n]
NumStr(n) == [t |-> "numstr", v |-> n]
Text == [t |-> "text", v |-> 0]
Undefined == [t |-> "undefined", v |-> 0]
Null == [t |-> "null", v |-> 0]

\* ToNumber: undefined and non-numeric text give NaN, null gives 0
ToNumber(x) ==
    CASE x.t = "number" -> [nan |-> FALSE, n |-> x.v]
      [] x.t = "numstr" -> [nan |-> FALSE, n |-> x.v]
      [] x.t = "null" -> [nan |-> FALSE, n |-> 0]
      [] OTHER -> [nan |-> TRUE, n |-> 0]

\* a < b where at most one operand is a string: both go through ToNumber,
\* and any comparison with NaN is false
JsLess(a, b) ==
    LET na == ToNumber(a)
        nb == ToNumber(b)
    IN  ~na.nan /\ ~nb.nan /\ na.n < nb.n

JsGreater(a, b) == JsLess(b, a)

\* !x
Falsy(x) ==
    \/ x.t \in {"undefined", "null"}
    \/ x.t = "number" /\ x.v = 0

(***************************************************************************)
(* Times of day are seconds since midnight.                                *)
(***************************************************************************)
Hms(h, m, s) == (h * 60 + m) * 60 + s

\* `${HH}:${MM}:00` of a Date: the seconds are dropped
FormatCurrentTime(now) == (now \div 60) * 60

\* ADDTIME(?, '00:15:00'): a TIME value, which does not wrap at 24:00:00
LookaheadSeconds == 900
AddTime(t) == t + LookaheadSeconds

(***************************************************************************)
(* The feeding_schedule table, in the order the store returns its rows.    *)
(* The schema is not part of the sources, so feeding_ID is not assumed to  *)
(* be unique.                                                              *)
(***************************************************************************)
feeding_schedule ==
    << [feeding_ID |-> 1, Pond_ID |-> 1, feeding_time |-> Hms(14, 0, 0)],
       [feeding_ID |-> 2, Pond_ID |-> 2, feeding_time |-> Hms(14, 10, 0)],
       [feeding_ID |-> 1, Pond_ID |-> 3, feeding_time |-> Hms(14, 5, 0)] >>

FeedingIds == {feeding_schedule[i].feeding_ID : i \in DOMAIN feeding_schedule}

\* the instants at which the cron job is observed to fire
ScanInstants == {Hms(13, 50, 30), Hms(14, 0, 0), Hms(14, 20, 10)}

\* feeding_ID values a POST /acknowledge body can carry
AckBodies == {Num(1), Num(2), Num(0), NumStr(1), Undefined}

VARIABLES
    env,          \* what the sensor endpoint, the store's tables and the push
                  \* endpoint answer
    alive,        \* the node process is running
    adminApps,    \* admin.apps.length > 0: Firebase Admin was initialized
    serverKey,    \* process.env.FCM_SERVER_KEY is set
    reminders,    \* let reminders = []
    inFlight,     \* feeding-scan queries sent to the store, oldest first
    emitted,      \* per feeding_ID: io.emit("feeding-reminder") calls so far
    pushed,       \* per feeding_ID: sendFeedingPush calls so far
    acked,        \* per feeding_ID: accepted acknowledge requests so far
    sensors_data, \* rows the archival job has inserted
    device_tokens, \* rows of the device_tokens table
    fetchCall,    \* the call of fetchSensorDataFromESP that is looked at
    probe,        \* a schedule row put to the feeding scan's query
    last          \* what the handler that ran last did and answered

vars == <<env, alive, adminApps, serverKey, reminders, inFlight, emitted, pushed, acked,
         sensors_data, device_tokens, fetchCall, probe, last>>

\* what the handlers of the worker router and the timers leave alone
aside == <<device_tokens, fetchCall, probe>>

RECURSIVE RowsInWindow(_, _)
\* rows of a table that lie in the window [from, to], in table order
RowsInWindow(rows, win) ==
    IF rows = <<>> THEN <<>>
    ELSE LET r == Head(rows)
             rest == RowsInWindow(Tail(rows), win)
         IN  IF win[1] <= r.feeding_time /\ r.feeding_time <= win[2]
             THEN <<r>> \o rest
             ELSE rest

\* SELECT ... WHERE feeding_time BETWEEN ? AND ADDTIME(?, '00:15:00'), with
\* currentTime bound to both ? marks
Select(table, currentTime) ==
    RowsInWindow(table, <<currentTime, AddTime(currentTime)>>)

ScheduleQuery(currentTime) == Select(feeding_schedule, currentTime)

(***************************************************************************)
(* Feeding scan: the callback of the schedule query.                       *)
(***************************************************************************)
\* reminders.some((rem) => rem.feeding_ID === row.feeding_ID)
ExistsNever(rems, row) == FALSE
ExistsByPond(rems, row) ==
    \E i \in DOMAIN rems : rems[i].pond_ID = row.Pond_ID
Exists(rems, row) ==
    \E i \in DOMAIN rems : rems[i].feeding_ID = row.feeding_ID

\* the reminder object built for a row; the message text is stood for by the
\* two values it interpolates
NewReminder(row, currentTime) ==
    [feeding_ID |-> row.feeding_ID,
     pond_ID |-> row.Pond_ID,
     reminder_time |-> currentTime,
     message |-> <<row.Pond_ID, row.feeding_time>>,
     acknowledged |-> FALSE]

RECURSIVE ForEachRow(_, _, _, _)
\* results.forEach: the list after the rows were handled and the reminders
\* created on the way, in the order of the rows
ForEachRow(rows, rems, created, currentTime) ==
    IF rows = <<>> THEN [reminders |-> rems, created |-> created]
    ELSE LET row == Head(rows)
         IN  IF ~Exists(rems, row)
             THEN LET reminder == NewReminder(row, currentTime)
                  IN  ForEachRow(Tail(rows), Append(rems, reminder),
                                 Append(created, reminder), currentTime)
             ELSE ForEachRow(Tail(rows), rems, created, currentTime)

\* how a call of sendFeedingPush ends; it catches what the provider throws
\* and never rejects
SendFeedingPush(apps, providerOk) ==
    IF ~apps THEN "skipped"
    ELSE IF providerOk THEN "sent" ELSE "failed"

\* what is done for one created reminder: io.emit, then sendFeedingPush
FeedingDispatch(reminder, apps, providerOk) ==
    [feeding_ID |-> reminder.feeding_ID,
     attempted |-> {"realtime", "push"},
     push |-> SendFeedingPush(apps, providerOk)]

CountOf(created, f) ==
    Cardinality({i \in DOMAIN created : created[i].feeding_ID = f})

\* cron.schedule("* * * * *"): the tick computes currentTime and sends the query
FeedingTick ==
    /\ alive
    /\ UNCHANGED aside
    /\ Len(inFlight) < MaxInFlight
    /\ \E now \in ScanInstants :
          inFlight' = Append(inFlight, [currentTime |-> FormatCurrentTime(now)])
    /\ UNCHANGED <<env, alive, adminApps, serverKey, reminders, emitted, pushed, acked,
                   sensors_data, last>>

\* the same tick, firing while the queries of earlier ticks are still out
FeedingTickOverlapping ==
    /\ alive
    /\ UNCHANGED aside
    /\ Len(inFlight) < MaxOverlap
    /\ \E now \in ScanInstants :
          inFlight' = Append(inFlight, [currentTime |-> FormatCurrentTime(now)])
    /\ UNCHANGED <<env, alive, adminApps, serverKey, reminders, emitted, pushed, acked,
                   sensors_data, last>>

\* the callback of db.query(sql, [currentTime, currentTime], ...)
FeedingQueryCallback ==
    /\ alive
    /\ UNCHANGED aside
    /\ inFlight # <<>>
    /\ inFlight' = Tail(inFlight)
    /\ \E err \in BOOLEAN, providerOk \in BOOLEAN :
          LET currentTime == Head(inFlight).currentTime
              results == ScheduleQuery(currentTime)
              out == ForEachRow(results, reminders, <<>>, currentTime)
          IN  IF err
              THEN /\ last' = [op |-> "scan", error |-> TRUE, results |-> <<>>,
                                dispatches |-> <<>>]
                   /\ UNCHANGED <<reminders, emitted, pushed>>
              ELSE /\ reminders' = out.reminders
                   /\ emitted' = [f \in FeedingIds |-> emitted[f] + CountOf(out.created, f)]
                   /\ pushed' = [f \in FeedingIds |-> pushed[f] + CountOf(out.created, f)]
                   /\ last' = [op |-> "scan", error |-> FALSE,
                               results |-> [i \in DOMAIN results |-> results[i].feeding_ID],
                               dispatches |->
                                 [i \in DOMAIN out.created |->
                                    FeedingDispatch(out.created[i], adminApps, providerOk)]]
    /\ UNCHANGED <<env, alive, adminApps, serverKey, acked, sensors_data>>

(***************************************************************************)
(* GET /reminder and POST /acknowledge                                     *)
(***************************************************************************)
ListReminders ==
    /\ alive
    /\ UNCHANGED aside
    /\ last' = [op |-> "reminder", status |-> 200, body |-> reminders]
    /\ UNCHANGED <<env, alive, adminApps, serverKey, reminders, inFlight, emitted, pushed, acked,
                   sensors_data>>

\* reminders.filter((rem) => rem.feeding_ID !== feeding_ID)
FilterMarksAcknowledged(rems, feeding_ID) ==
    [i \in DOMAIN rems |->
        IF Num(rems[i].feeding_ID) = feeding_ID
        THEN [rems[i] EXCEPT !.acknowledged = TRUE]
        ELSE rems[i]]
FilterDiscarded(rems, feeding_ID) == rems
FilterKeepsNamed(rems, feeding_ID) ==
    SelectSeq(rems, LAMBDA rem : Num(rem.feeding_ID) = feeding_ID)
Filter(rems, feeding_ID) ==
    SelectSeq(rems, LAMBDA rem : Num(rem.feeding_ID) # feeding_ID)

RECURSIVE SumOver(_, _)
SumOver(f, S) ==
    IF S = {} THEN 0
    ELSE LET x == CHOOSE y \in S : TRUE
         IN  f[x] + SumOver(f, S \ {x})

\* router.post("/acknowledge"): a body without a feeding_ID is refused, any
\* other is answered { success: true } after the filter
Acknowledge ==
    /\ alive
    /\ UNCHANGED aside
    /\ \E feeding_ID \in AckBodies :
          IF Falsy(feeding_ID)
          THEN /\ last' = [op |-> "acknowledge", status |-> 400, success |-> FALSE,
                           feeding_ID |-> feeding_ID]
               /\ UNCHANGED <<reminders, acked>>
          ELSE /\ SumOver(acked, FeedingIds) < MaxAcks
               /\ reminders' = Filter(reminders, feeding_ID)
               /\ acked' = [f \in FeedingIds |->
                              IF Num(f) = feeding_ID THEN acked[f] + 1 ELSE acked[f]]
               /\ last' = [op |-> "acknowledge", status |-> 200, success |-> TRUE,
                           feeding_ID |-> feeding_ID]
    /\ UNCHANGED <<env, alive, adminApps, serverKey, inFlight, emitted, pushed, sensors_data>>

(***************************************************************************)
(* The store connection's 'error' handler                                  *)
(***************************************************************************)
ErrorCodes ==
    {"PROTOCOL_CONNECTION_LOST", "ECONNRESET", "PROTOCOL_ENQUEUE_AFTER_FATAL_ERROR",
     "ETIMEDOUT"}

\* the codes on which the handler calls connection.connect() again
Reconnects(code) ==
    code \in {"PROTOCOL_CONNECTION_LOST", "ECONNRESET", "PROTOCOL_ENQUEUE_AFTER_FATAL_ERROR"}

\* connection.on('error'): any other code is thrown again, out of an event
\* handler, which ends the process
ConnectionError ==
    /\ alive
    /\ UNCHANGED aside
    /\ \E code \in ErrorCodes :
          /\ last' = [op |-> "dbError", code |-> code, reconnect |-> Reconnects(code)]
          /\ alive' = Reconnects(code)
    /\ UNCHANGED <<env, adminApps, serverKey, reminders, inFlight, emitted, pushed, acked,
                   sensors_data>>

(***************************************************************************)
(* Condition check                                                         *)
(***************************************************************************)
\* what fetchSensorDataFromESP can end in: the parsed body, the AbortError of
\* the timeout, or another error (a non-ok status, a body that is not JSON,
\* a refused connection)
FetchOk(data) == [kind |-> "ok", data |-> data]
EspData(wl, temp, tds) == [waterLevelInside |-> wl, waterTemp |-> temp, tds |-> tds]
NoData == EspData(Undefined, Undefined, Undefined)
FetchAbort == [kind |-> "AbortError", data |-> NoData]
FetchError == [kind |-> "Error", data |-> NoData]

ThresholdRow(wl, temp, tds) ==
    [min_water_level |-> wl[1], max_water_level |-> wl[2],
     min_temperature |-> temp[1], max_temperature |-> temp[2],
     min_tds |-> tds[1], max_tds |-> tds[2]]

\* what executeQuery can end in: the rows, or a rejection
QueryRows(rows) == [err |-> FALSE, rows |-> rows]
QueryError == [err |-> TRUE, rows |-> <<>>]

\* value < min || value > max
OutOfRangeInclusive(value, min, max) ==
    JsLess(value, min) \/ JsGreater(value, max) \/ value = min \/ value = max
OutOfRange(value, min, max) ==
    JsLess(value, min) \/ JsGreater(value, max)

\* one entry of alerts: the message text is stood for by the metric it
\* names and the three values it interpolates
Alert(metric, value, min, max) ==
    [metric |-> metric, value |-> value, min |-> min, max |-> max]

\* steps 3 and 4 of checkConditionsAndSendAlert: pondData and the alert list
AlertsTdsFirst(espData, threshold) ==
    LET pondData == [waterLevel |-> espData.waterLevelInside,
                     temperature |-> espData.waterTemp,
                     tds |-> espData.tds]
        a1 == IF OutOfRange(pondData.tds, threshold.min_tds, threshold.max_tds)
              THEN <<Alert("TDS", pondData.tds, threshold.min_tds, threshold.max_tds)>>
              ELSE <<>>
        a2 == IF OutOfRange(pondData.waterLevel, threshold.min_water_level,
                            threshold.max_water_level)
              THEN Append(a1, Alert("Water Level", pondData.waterLevel,
                                    threshold.min_water_level, threshold.max_water_level))
              ELSE a1
    IN  IF OutOfRange(pondData.temperature, threshold.min_temperature,
                      threshold.max_temperature)
        THEN Append(a2, Alert("Temperature", pondData.temperature,
                              threshold.min_temperature, threshold.max_temperature))
        ELSE a2
Alerts(espData, threshold) ==
    LET pondData == [waterLevel |-> espData.waterLevelInside,
                     temperature |-> espData.waterTemp,
                     tds |-> espData.tds]
        a1 == IF OutOfRange(pondData.waterLevel, threshold.min_water_level,
                            threshold.max_water_level)
              THEN <<Alert("Water Level", pondData.waterLevel,
                           threshold.min_water_level, threshold.max_water_level)>>
              ELSE <<>>
        a2 == IF OutOfRange(pondData.temperature, threshold.min_temperature,
                            threshold.max_temperature)
              THEN Append(a1, Alert("Temperature", pondData.temperature,
                                    threshold.min_temperature, threshold.max_temperature))
              ELSE a1
    IN  IF OutOfRange(pondData.tds, threshold.min_tds, threshold.max_tds)
        THEN Append(a2, Alert("TDS", pondData.tds, threshold.min_tds, threshold.max_tds))
        ELSE a2

\* how a call of sendPushNotificationFCM ends.  The file declares the function
\* twice; the later declaration, which posts to the legacy HTTP endpoint with
\* FCM_SERVER_KEY, is the one that is bound.  fcm is what the endpoint does.
SendPushNotificationFCMAdmin(apps, key, fcm) ==
    IF ~apps THEN "skipped"
    ELSE IF fcm = "ok" THEN "sent" ELSE "failed"
SendPushNotificationFCM(apps, key, fcm) ==
    IF ~key THEN "skipped"
    ELSE IF fcm = "ok" THEN "sent" ELSE "failed"

FcmOutcomes == {"ok", "notOk", "throws"}

\* the report of a check that stopped before step 5
NoDispatchAfterWorkers(outcome, fetch, thresholds) ==
    [outcome |-> outcome, fetch |-> fetch, thresholds |-> thresholds,
     alerts |-> <<>>, workersQueried |-> TRUE, attempted |-> {}, push |-> "none"]
NoDispatch(outcome, fetch, thresholds) ==
    [outcome |-> outcome, fetch |-> fetch, thresholds |-> thresholds,
     alerts |-> <<>>, workersQueried |-> FALSE, attempted |-> {}, push |-> "none"]

\* checkConditionsAndSendAlert, from the fetch to the end of the try block or
\* to its catch block
CheckConditionsAndSendAlert(fetch, thresholds, workers, fcm) ==
    IF fetch.kind = "AbortError" THEN NoDispatch("timeout", fetch, QueryRows(<<>>))
    ELSE IF fetch.kind # "ok" THEN NoDispatch("error", fetch, QueryRows(<<>>))
    ELSE IF thresholds.err THEN NoDispatch("error", fetch, thresholds)
    ELSE IF Len(thresholds.rows) = 0 THEN NoDispatch("noThreshold", fetch, thresholds)
    ELSE LET alerts == Alerts(fetch.data, thresholds.rows[1])
         IN  IF Len(alerts) = 0 THEN NoDispatch("normal", fetch, thresholds)
             ELSE IF workers.err
             THEN [NoDispatch("error", fetch, thresholds) EXCEPT
                     !.alerts = alerts, !.workersQueried = TRUE]
             ELSE [outcome |-> "alerted", fetch |-> fetch,
                   thresholds |-> thresholds, alerts |-> alerts,
                   workersQueried |-> TRUE,
                   attempted |-> (IF Len(workers.rows) = 0 THEN {} ELSE {"email"})
                                   \cup {"push"},
                   push |-> SendPushNotificationFCM(adminApps, serverKey, fcm)]

\* setInterval(checkConditionsAndSendAlert, ALERT_CHECK_INTERVAL_MS)
AlertInterval ==
    /\ alive
    /\ UNCHANGED aside
    /\ last' = [op |-> "check",
                report |-> CheckConditionsAndSendAlert(env.fetch, env.thresholds,
                                                       env.workers, env.fcm)]
    /\ UNCHANGED <<env, alive, adminApps, serverKey, reminders, inFlight, emitted, pushed,
                   acked, sensors_data>>

\* router.get('/alerts/test-push'): the check never rejects, so the answer is
\* always { status: 'triggered' }
TestPush ==
    /\ alive
    /\ UNCHANGED aside
    /\ last' = [op |-> "test-push",
                report |-> CheckConditionsAndSendAlert(env.fetch, env.thresholds,
                                                       env.workers, env.fcm),
                status |-> 200, body |-> "triggered"]
    /\ UNCHANGED <<env, alive, adminApps, serverKey, reminders, inFlight, emitted, pushed,
                   acked, sensors_data>>

(***************************************************************************)
(* Archival job                                                            *)
(***************************************************************************)
\* the ? marks of the INSERT statement
InsertPlaceholders == 5

\* the INSERT of saveSensorsData as the store sees it: a ? mark that no value
\* fills stays in the statement, which the store then refuses
ExecuteInsert(values, storeError) ==
    IF Len(values) < InsertPlaceholders \/ storeError THEN QueryError
    ELSE QueryRows(<<values>>)

\* cron.schedule('0 */6 * * *') -> saveSensorsData
SaveSensorsData ==
    /\ alive
    /\ UNCHANGED aside
    /\ \E storeError \in BOOLEAN :
          LET fetch == env.fetch
              report(outcome, failed) ==
                  [op |-> "archive", outcome |-> outcome, fetch |-> fetch,
                   storeError |-> failed]
          IN
          IF fetch.kind = "AbortError"
          THEN /\ last' = report("timeout", FALSE)
               /\ UNCHANGED sensors_data
          ELSE IF fetch.kind # "ok"
          THEN /\ last' = report("error", FALSE)
               /\ UNCHANGED sensors_data
          ELSE LET data == fetch.data
                   values == <<Num(1), data.waterLevelInside, data.waterTemp, data.tds>>
                   res == ExecuteInsert(values, storeError)
               IN  IF res.err
                   THEN /\ last' = report("error", storeError)
                        /\ UNCHANGED sensors_data
                   ELSE /\ last' = report("inserted", storeError)
                        /\ sensors_data' = Append(sensors_data, values)
    /\ UNCHANGED <<env, alive, adminApps, serverKey, reminders, inFlight, emitted, pushed, acked>>

(***************************************************************************)
(* Inputs                                                                  *)
(***************************************************************************)
WaterLevels == {Num(5), Num(9), Num(10), Num(30), Num(50), Num(51), Undefined, Null, Text}
WaterTemps == {Num(19), Num(20), Num(26), Num(32), Num(33), Undefined}
TdsValues == {Num(-1), Num(0), Num(300), Num(500), Num(501), Undefined}

Snapshots ==
    {EspData(wl, temp, tds) : wl \in WaterLevels, temp \in WaterTemps, tds \in TdsValues}

Fetches == {FetchAbort, FetchError} \cup {FetchOk(d) : d \in Snapshots}

\* thresholds rows: ordinary bounds, bounds with min = max, and a row with
\* NULL columns
ThresholdRows ==
    {ThresholdRow(<<Num(10), Num(50)>>, <<Num(20), Num(32)>>, <<Num(0), Num(500)>>),
     ThresholdRow(<<Num(10), Num(10)>>, <<Num(20), Num(20)>>, <<Num(0), Num(0)>>),
     ThresholdRow(<<Null, Num(50)>>, <<Num(20), Null>>, <<Num(0), Num(500)>>)}

\* SELECT * FROM thresholds LIMIT 1
ThresholdResults ==
    {QueryError, QueryRows(<<>>)} \cup {QueryRows(<<row>>) : row \in ThresholdRows}

\* SELECT email FROM worker
WorkerResults ==
    {QueryError, QueryRows(<<>>), QueryRows(<<[email |-> "worker@pond"]>>)}

Envs(fetches, thresholdResults, workerResults, fcms) ==
    [fetch : fetches, thresholds : thresholdResults, workers : workerResults, fcm : fcms]

\* the surroundings in which the feeding scan is looked at
FewEnvs ==
    Envs({FetchAbort, FetchOk(EspData(Num(5), Num(26), Num(300)))},
         {QueryRows(<<ThresholdRow(<<Num(10), Num(50)>>, <<Num(20), Num(32)>>,
                                   <<Num(0), Num(500)>>)>>)},
         {QueryRows(<<[email |-> "worker@pond"]>>)},
         {"ok"})

AllEnvs == Envs(Fetches, ThresholdResults, WorkerResults, FcmOutcomes)

(***************************************************************************)
(* One call of fetchSensorDataFromESP, step by step, made by the route     *)
(* GET /sensorsdatacome.  fetchCall.timer is the timer of setTimeout,      *)
(* fetchCall.late says that FETCH_TIMEOUT_MS have gone by since the call   *)
(* began, fetchCall.gets counts the calls of fetch().                      *)
(***************************************************************************)
\* the bodies the sensor endpoint answers with
Bodies ==
    {EspData(Num(5), Num(26), Num(300)), EspData(Num(30), Num(26), Num(300)),
     EspData(Num(30), Num(33), Num(501))}

\* router.get('/sensorsdatacome') calls the fetcher: the timer is set and
\* fetch() is called
FetchBegin ==
    /\ alive
    /\ fetchCall.pc = "idle"
    /\ fetchCall' = [pc |-> "fetch", timer |-> "armed", late |-> FALSE, gets |-> 1,
                     result |-> FetchError]
    /\ UNCHANGED <<env, alive, adminApps, serverKey, reminders, inFlight, emitted, pushed,
                   acked, sensors_data, device_tokens, probe, last>>

\* fetch() resolves with the response's status line and headers:
\* clearTimeout(timeoutId), then the body is awaited, as JSON on an ok status
\* and as text otherwise
FetchResponds ==
    /\ fetchCall.pc = "fetch"
    /\ \E ok \in BOOLEAN :
          fetchCall' = [fetchCall EXCEPT !.timer = "cleared",
                                         !.pc = IF ok THEN "json" ELSE "text"]
    /\ UNCHANGED <<env, alive, adminApps, serverKey, reminders, inFlight, emitted, pushed,
                   acked, sensors_data, device_tokens, probe, last>>

\* fetch() rejects (the connection is refused): the catch block clears the
\* timer and throws the error on
FetchRejects ==
    /\ fetchCall.pc = "fetch"
    /\ fetchCall' = [fetchCall EXCEPT !.timer = "cleared", !.pc = "returned",
                                      !.result = FetchError]
    /\ UNCHANGED <<env, alive, adminApps, serverKey, reminders, inFlight, emitted, pushed,
                   acked, sensors_data, device_tokens, probe, last>>

\* FETCH_TIMEOUT_MS after the call began.  A timer that is still set fires:
\* controller.abort() makes the awaited fetch() reject with an AbortError,
\* which the catch block throws on.  A timer that was cleared does nothing.
FetchDeadline ==
    /\ fetchCall.pc \in {"fetch", "json", "text"}
    /\ ~fetchCall.late
    /\ fetchCall' =
          IF fetchCall.timer = "armed"
          THEN [fetchCall EXCEPT !.late = TRUE, !.timer = "fired", !.pc = "returned",
                                 !.result = FetchAbort]
          ELSE [fetchCall EXCEPT !.late = TRUE]
    /\ UNCHANGED <<env, alive, adminApps, serverKey, reminders, inFlight, emitted, pushed,
                   acked, sensors_data, device_tokens, probe, last>>

\* the body has arrived: response.json() gives the snapshot or throws on a
\* body that is not JSON; on a status that is not ok the text goes into the
\* Error that is thrown
FetchBody ==
    /\ fetchCall.pc \in {"json", "text"}
    /\ \E result \in {FetchError} \cup {FetchOk(d) : d \in Bodies} :
          /\ fetchCall.pc = "text" => result = FetchError
          /\ fetchCall' = [fetchCall EXCEPT !.pc = "returned", !.result = result]
    /\ UNCHANGED <<env, alive, adminApps, serverKey, reminders, inFlight, emitted, pushed,
                   acked, sensors_data, device_tokens, probe, last>>

\* router.get('/sensorsdatacome') answers with what the fetcher ended in
SensorsDataCome ==
    /\ fetchCall.pc = "returned"
    /\ last' = [op |-> "sensorsdatacome",
                status |-> CASE fetchCall.result.kind = "ok" -> 200
                             [] fetchCall.result.kind = "AbortError" -> 504
                             [] OTHER -> 500,
                body |-> fetchCall.result.data,
                call |-> fetchCall]
    /\ fetchCall' = [pc |-> "idle"]
    /\ UNCHANGED <<env, alive, adminApps, serverKey, reminders, inFlight, emitted, pushed,
                   acked, sensors_data, device_tokens, probe>>

(***************************************************************************)
(* Device tokens                                                           *)
(***************************************************************************)
\* a device token: a non-empty string
Token(n) == [t |-> "text", v |-> n]

\* what the body of POST /register-token can carry
TokenBodies == {Undefined, Null, Token(1), Token(2)}
WorkerIdBodies == {Undefined, Num(0), Num(1), Num(2)}

\* INSERT INTO device_tokens (worker_id, token) VALUES (?, ?)
\* ON DUPLICATE KEY UPDATE worker_id = VALUES(worker_id), token being UNIQUE
UpsertPlainInsert(table, worker_id, token) ==
    Append(table, [worker_id |-> worker_id, token |-> token])
Upsert(table, worker_id, token) ==
    IF \E i \in DOMAIN table : table[i].token = token
    THEN [i \in DOMAIN table |->
            IF table[i].token = token
            THEN [table[i] EXCEPT !.worker_id = worker_id]
            ELSE table[i]]
    ELSE Append(table, [worker_id |-> worker_id, token |-> token])

\* router.post('/register-token').  An error of CREATE TABLE IF NOT EXISTS is
\* logged and the upsert is sent all the same; a rejected subscribeToTopic
\* is caught and logged.
RegisterToken ==
    /\ alive
    /\ \E token \in TokenBodies, worker_id \in WorkerIdBodies,
          createError \in BOOLEAN, upsertError \in BOOLEAN, subscribeOk \in BOOLEAN :
          LET answer(status, queries, subscribe) ==
                  [op |-> "register-token", token |-> token, worker_id |-> worker_id,
                   status |-> status, queries |-> queries, subscribe |-> subscribe]
          IN
          IF Falsy(token)
          THEN /\ last' = answer(400, 0, "none")
               /\ UNCHANGED device_tokens
          ELSE IF upsertError
          THEN /\ last' = answer(500, 2, "none")
               /\ UNCHANGED device_tokens
          ELSE /\ device_tokens' =
                     Upsert(device_tokens, IF Falsy(worker_id) THEN Null ELSE worker_id,
                            token)
               /\ last' = answer(200, 2,
                                 IF ~adminApps THEN "skipped"
                                 ELSE IF subscribeOk THEN "subscribed" ELSE "failed")
    /\ UNCHANGED <<env, alive, adminApps, serverKey, reminders, inFlight, emitted, pushed,
                   acked, sensors_data, fetchCall, probe>>

(***************************************************************************)
(* The feeding scan's tick over a schedule of one row: the instant of the  *)
(* tick and the row are drawn at the start, the tick sends the query and   *)
(* its callback handles the rows returned, the reminder list being empty.  *)
(***************************************************************************)
ProbeInstants ==
    {Hms(0, 0, 0), Hms(13, 44, 59), Hms(13, 45, 0), Hms(13, 50, 0), Hms(13, 59, 59),
     Hms(14, 0, 0), Hms(14, 1, 0), Hms(23, 44, 59), Hms(23, 45, 0), Hms(23, 50, 0),
     Hms(23, 59, 30)}

ProbeRows ==
    {[feeding_ID |-> 1, Pond_ID |-> 1, feeding_time |-> ft] :
        ft \in {Hms(0, 0, 0), Hms(0, 2, 0), Hms(0, 14, 0), Hms(14, 0, 0), Hms(14, 5, 0),
                Hms(23, 59, 0)}}

Probes == [asked : {FALSE}, now : ProbeInstants, row : ProbeRows]

\* cron tick and query callback, one after the other, with no error
ScanOneRow ==
    /\ alive
    /\ ~probe.asked
    /\ \E providerOk \in BOOLEAN :
          LET currentTime == FormatCurrentTime(probe.now)
              results == Select(<<probe.row>>, currentTime)
              out == ForEachRow(results, <<>>, <<>>, currentTime)
          IN  probe' = [asked |-> TRUE, now |-> probe.now, row |-> probe.row,
                        results |-> results,
                        reminders |-> out.reminders,
                        dispatches |->
                          [i \in DOMAIN out.created |->
                             FeedingDispatch(out.created[i], adminApps, providerOk)]]
    /\ UNCHANGED <<env, alive, adminApps, serverKey, reminders, inFlight, emitted, pushed,
                   acked, sensors_data, device_tokens, fetchCall, last>>

(***************************************************************************)
(* Specifications                                                          *)
(***************************************************************************)
Start ==
    /\ alive = TRUE
    /\ adminApps \in BOOLEAN
    /\ serverKey \in BOOLEAN
    /\ reminders = <<>>
    /\ inFlight = <<>>
    /\ emitted = [f \in FeedingIds |-> 0]
    /\ pushed = [f \in FeedingIds |-> 0]
    /\ acked = [f \in FeedingIds |-> 0]
    /\ sensors_data = <<>>
    /\ device_tokens = <<>>
    /\ last = [op |-> "init"]

\* no call of the fetcher and no schedule row are looked at
Aside == fetchCall = [pc |-> "idle"] /\ probe = [asked |-> FALSE]

Init == env \in FewEnvs /\ Start /\ Aside

Next ==
    \/ FeedingTick
    \/ FeedingQueryCallback
    \/ ListReminders
    \/ Acknowledge
    \/ ConnectionError
    \/ AlertInterval
    \/ TestPush
    \/ SaveSensorsData

Spec == Init /\ [][Next]_vars

\* the condition check alone, in every surrounding
InitCheck == env \in AllEnvs /\ Start /\ Aside

NextCheck == AlertInterval \/ TestPush

SpecCheck == InitCheck /\ [][NextCheck]_vars

\* the surroundings between which the condition check's ticks are looked at:
\* the sensor endpoint times out, fails, or answers a reading outside or inside
\* the bounds; the thresholds table fails, is empty, or holds a row
TickEnvs ==
    Envs({FetchAbort, FetchError, FetchOk(EspData(Num(5), Num(26), Num(300))),
          FetchOk(EspData(Num(30), Num(26), Num(300)))},
         {QueryError, QueryRows(<<>>),
          QueryRows(<<ThresholdRow(<<Num(10), Num(50)>>, <<Num(20), Num(32)>>,
                                   <<Num(0), Num(500)>>)>>)},
         {QueryError, QueryRows(<<[email |-> "worker@pond"]>>)},
         {"ok", "throws"})

\* between two ticks the sensor endpoint and the tables come to answer
\* differently
EnvChange ==
    /\ alive
    /\ env' \in TickEnvs \ {env}
    /\ UNCHANGED <<alive, adminApps, serverKey, reminders, inFlight, emitted, pushed, acked,
                   sensors_data, last>>
    /\ UNCHANGED aside

\* the condition check, tick after tick, in changing surroundings
InitTicks == env \in TickEnvs /\ Start /\ Aside

NextTicks == AlertInterval \/ TestPush \/ EnvChange

SpecTicks == InitTicks /\ [][NextTicks]_vars

\* the calls of the fetcher made by GET /sensorsdatacome
NextFetch ==
    \/ FetchBegin
    \/ FetchResponds
    \/ FetchRejects
    \/ FetchDeadline
    \/ FetchBody
    \/ SensorsDataCome

SpecFetch == Init /\ [][NextFetch]_vars

\* the feeding scan with overlapping queries, the acknowledge requests and
\* the manually triggered condition checks
NextRace ==
    \/ FeedingTickOverlapping
    \/ FeedingQueryCallback
    \/ Acknowledge
    \/ TestPush

\* both push services configured and the sensor endpoint answering
InitRace == Init /\ adminApps /\ serverKey /\ env.fetch.kind = "ok"

SpecRace == InitRace /\ [][NextRace]_vars

\* the feeding scan over every tick instant and schedule row looked at
InitWindow == env \in FewEnvs /\ Start /\ fetchCall = [pc |-> "idle"] /\ probe \in Probes

NextWindow == ScanOneRow

SpecWindow == InitWindow /\ [][NextWindow]_vars

\* the registrations of device tokens
NextTokens == RegisterToken

SpecTokens == Init /\ [][NextTokens]_vars

(***************************************************************************)
(* Properties                                                              *)
(***************************************************************************)
Range(seq) == {seq[i] : i \in DOMAIN seq}

Live(f) == \E i \in DOMAIN reminders : reminders[i].feeding_ID = f

\* C1: for each feeding identifier the "feeding-reminder" events emitted so
\* far, and the feeding pushes invoked so far, never exceed the accepted
\* acknowledgments of that identifier plus one; and no step emits or pushes
\* for an identifier that has a live reminder when the step begins, so a scan
\* run again with no acknowledge in between emits nothing.
C1_NoSecondDispatch ==
    /\ [](\A f \in FeedingIds :
            emitted[f] <= acked[f] + 1 /\ pushed[f] <= acked[f] + 1)
    /\ [][\A f \in FeedingIds :
            Live(f) => emitted'[f] = emitted[f] /\ pushed'[f] = pushed[f]]_vars

\* a scan whose query returned feeding 1 found its reminder live and
\* dispatched nothing
C1_Witness ==
    /\ last.op = "scan" /\ ~last.error
    /\ 1 \in Range(last.results)
    /\ last.dispatches = <<>>
    /\ emitted[1] = 1 /\ pushed[1] = 1 /\ acked[1] = 0

\* C2: the reminder list never holds two reminders with the same feeding
\* identifier.
C2_OneReminderPerFeeding ==
    \A i, j \in DOMAIN reminders :
        i # j => reminders[i].feeding_ID # reminders[j].feeding_ID

\* a scan whose query returned feeding 1 in two rows left one reminder for it
C2_Witness ==
    /\ last.op = "scan" /\ ~last.error
    /\ Cardinality({i \in DOMAIN last.results : last.results[i] = 1}) = 2
    /\ Cardinality({i \in DOMAIN reminders : reminders[i].feeding_ID = 1}) = 1

\* C3: an accepted acknowledge answers success exactly when it removed a
\* reminder.
C3_AcknowledgeReportsRemoval ==
    [][acked' # acked =>
         (last'.success <=> Len(reminders') < Len(reminders))]_vars

\* C4: a reminder leaves the list only in a step that accepts an acknowledge
\* of its feeding identifier, and every other step leaves the reminders it
\* found in place and unaltered.
C4_OnlyAcknowledgeRemoves ==
    [][/\ \A r \in Range(reminders) :
             r \notin Range(reminders') =>
                 acked'[r.feeding_ID] = acked[r.feeding_ID] + 1
       /\ acked' = acked =>
             /\ Len(reminders') >= Len(reminders)
             /\ SubSeq(reminders', 1, Len(reminders)) = reminders]_vars

\* feeding 1 was acknowledged away while the reminder of feeding 2 stayed
C4_Witness ==
    /\ last.op = "acknowledge" /\ last.status = 200 /\ last.feeding_ID = Num(1)
    /\ emitted[1] = 1 /\ acked[1] = 1
    /\ ~Live(1) /\ Live(2)

(***************************************************************************)
(* Properties of the condition check                                       *)
(***************************************************************************)
CheckRan == last.op \in {"check", "test-push"}

\* the check read a reading and a threshold row and built its alert list
Evaluated ==
    /\ CheckRan
    /\ last.report.fetch.kind = "ok"
    /\ ~last.report.thresholds.err
    /\ Len(last.report.thresholds.rows) = 1

Numeric(x) == x.t = "number"

AlertsNaming(metric) ==
    {i \in DOMAIN last.report.alerts : last.report.alerts[i].metric = metric}

\* a metric with numeric value and bounds has one alert, carrying the value
\* and the bounds, when the value lies strictly outside them, and none otherwise
BoundaryRule(metric, value, min, max) ==
    (Numeric(value) /\ Numeric(min) /\ Numeric(max)) =>
        IF value.v < min.v \/ value.v > max.v
        THEN /\ Cardinality(AlertsNaming(metric)) = 1
             /\ \A i \in AlertsNaming(metric) :
                   last.report.alerts[i] =
                       [metric |-> metric, value |-> value, min |-> min, max |-> max]
        ELSE AlertsNaming(metric) = {}

\* C5: a metric whose value and bounds are numbers is alerted exactly when
\* the value is strictly below min or strictly above max, whatever the other
\* two metrics are: a value equal to min or max gives no alert, a value
\* outside gives exactly one alert naming the metric.
C5_StrictBounds ==
    Evaluated =>
        LET data == last.report.fetch.data
            threshold == last.report.thresholds.rows[1]
        IN  /\ BoundaryRule("Water Level", data.waterLevelInside,
                            threshold.min_water_level, threshold.max_water_level)
            /\ BoundaryRule("Temperature", data.waterTemp,
                            threshold.min_temperature, threshold.max_temperature)
            /\ BoundaryRule("TDS", data.tds, threshold.min_tds, threshold.max_tds)

\* water level at its min, TDS at its max and temperature one above its max:
\* the temperature alert alone
C5_Witness ==
    /\ Evaluated
    /\ last.report.fetch.data = EspData(Num(10), Num(33), Num(500))
    /\ last.report.thresholds.rows[1] =
           ThresholdRow(<<Num(10), Num(50)>>, <<Num(20), Num(32)>>, <<Num(0), Num(500)>>)
    /\ Len(last.report.alerts) = 1
    /\ last.report.alerts[1].metric = "Temperature"

Rank(metric) ==
    CASE metric = "Water Level" -> 1
      [] metric = "Temperature" -> 2
      [] metric = "TDS" -> 3

\* C6: the alerts of a check come in the order water level, temperature,
\* TDS; with all three metrics alerted the list names exactly these three
\* in this order.
C6_FixedOrder ==
    Evaluated =>
        LET alerts == last.report.alerts
        IN  /\ \A i, j \in DOMAIN alerts :
                   i < j => Rank(alerts[i].metric) < Rank(alerts[j].metric)
            /\ Len(alerts) = 3 =>
                   [i \in DOMAIN alerts |-> alerts[i].metric] =
                       <<"Water Level", "Temperature", "TDS">>

\* all three metrics out of range
C6_Witness ==
    /\ Evaluated
    /\ last.report.fetch.data = EspData(Num(5), Num(33), Num(501))
    /\ Len(last.report.alerts) = 3

\* the reading lacks a numeric value, or the threshold row or one of its
\* bounds is absent
MissingInput ==
    LET data == last.report.fetch.data
        rows == last.report.thresholds.rows
    IN  \/ ~Numeric(data.waterLevelInside)
        \/ ~Numeric(data.waterTemp)
        \/ ~Numeric(data.tds)
        \/ rows = <<>>
        \/ \E f \in DOMAIN rows[1] : ~Numeric(rows[1][f])

\* C7: a check that read a reading with a missing or non-numeric value, or
\* found no threshold row or a row lacking a bound, does not end in "all
\* pond conditions are normal" or in a dispatch, and the manual trigger
\* does not answer it as a success.
C7_MissingInputIsConfigurationError ==
    (CheckRan /\ last.report.fetch.kind = "ok" /\ ~last.report.thresholds.err
        /\ MissingInput) =>
        /\ last.report.outcome \notin {"normal", "alerted"}
        /\ last.op = "test-push" => last.status # 200

(***************************************************************************)
(* Properties of the dispatch                                              *)
(***************************************************************************)
Channels == {"realtime", "push", "email"}

\* C8: every dispatch, of a feeding reminder or of a non-empty alert list,
\* attempts the realtime broadcast, the push and the e-mail.
C8_AllChannelsAttempted ==
    /\ last.op = "scan" =>
          \A i \in DOMAIN last.dispatches : last.dispatches[i].attempted = Channels
    /\ (CheckRan /\ last.report.alerts # <<>>) => last.report.attempted = Channels

\* C9: a push, for a feeding reminder or for an alert list, is skipped
\* exactly when Firebase Admin was not initialized.
C9_PushFollowsAdminInit ==
    /\ last.op = "scan" =>
          \A i \in DOMAIN last.dispatches :
              last.dispatches[i].push = "skipped" <=> ~adminApps
    /\ (CheckRan /\ last.report.push # "none") =>
          (last.report.push = "skipped" <=> ~adminApps)

\* the handler that ran last met an error
HitError ==
    \/ last.op = "dbError"
    \/ last.op = "scan" /\ last.error
    \/ CheckRan /\ last.report.outcome \in {"timeout", "error", "noThreshold"}
    \/ last.op = "archive" /\ last.outcome \in {"timeout", "error"}

\* C10: whatever error a tick or the store connection met, the process is
\* still running, so the later ticks of the three loops run.
C10_ErrorsLeaveLoopsRunning ==
    HitError =>
        alive /\ ENABLED AlertInterval /\ ENABLED SaveSensorsData
              /\ ENABLED (FeedingTick \/ FeedingQueryCallback)

(***************************************************************************)
(* Properties of a tick that stops early                                   *)
(***************************************************************************)
\* the fetch of the tick timed out or failed, or its thresholds query
\* returned no row
StoppedEarly(report) ==
    \/ report.fetch.kind # "ok"
    \/ ~report.thresholds.err /\ report.thresholds.rows = <<>>

\* the values of the fields of a record
Fields(rec) == {rec[f] : f \in DOMAIN rec}

\* C11: a condition check whose fetch timed out or failed, or which found no
\* threshold row, attempts no channel, sends no push, does not query the
\* worker contacts and holds no alert; and the report of every tick carries
\* the fetch result and the thresholds of that tick, every alert in it being
\* built from the reading and the threshold row read in that tick, whatever
\* the tick before it dispatched.
C11_StoppedTickNotifiesNothing ==
    /\ [](CheckRan /\ StoppedEarly(last.report) =>
            /\ last.report.attempted = {}
            /\ last.report.push = "none"
            /\ ~last.report.workersQueried
            /\ last.report.alerts = <<>>)
    /\ [][(last' # last /\ last'.op \in {"check", "test-push"}) =>
            LET report == last'.report
            IN  /\ report.fetch = env.fetch
                /\ report.fetch.kind = "ok" => report.thresholds = env.thresholds
                /\ \A i \in DOMAIN report.alerts :
                       /\ report.alerts[i].value \in Fields(env.fetch.data)
                       /\ report.alerts[i].min \in Fields(env.thresholds.rows[1])
                       /\ report.alerts[i].max \in Fields(env.thresholds.rows[1])]_vars

\* the reading is outside the bounds the table held a tick ago, the table is
\* empty now, and the tick dispatched nothing
C11_Witness ==
    /\ CheckRan
    /\ last.report.outcome = "noThreshold"
    /\ last.report.fetch = FetchOk(EspData(Num(5), Num(26), Num(300)))
    /\ last.report.attempted = {}
    /\ env.thresholds = QueryRows(<<>>)

(***************************************************************************)
(* Properties of the store connection's errors                             *)
(***************************************************************************)
\* C12: a connection error is followed by a reconnection attempt exactly
\* when it is a connection-lost or a connection-reset error, and every other
\* error is handed on to the caller, which leaves the process running.
C12_ReconnectOnLostOrResetOnly ==
    last.op = "dbError" =>
        /\ last.reconnect <=> last.code \in {"PROTOCOL_CONNECTION_LOST", "ECONNRESET"}
        /\ ~last.reconnect => alive

(***************************************************************************)
(* Properties of the fetcher                                               *)
(***************************************************************************)
\* C13: a call of the fetcher calls fetch() once; once FETCH_TIMEOUT_MS have
\* gone by since it began, the call has returned, with the AbortError of the
\* timeout; and a call that has returned has ended in a snapshot, the
\* AbortError or another error, with its timer no longer set.
C13_OneGetThreeOutcomes ==
    fetchCall.pc # "idle" =>
        /\ fetchCall.gets = 1
        /\ fetchCall.late => fetchCall.pc = "returned" /\ fetchCall.result = FetchAbort
        /\ fetchCall.pc = "returned" =>
              /\ fetchCall.timer # "armed"
              /\ fetchCall.result.kind \in {"ok", "AbortError", "Error"}

(***************************************************************************)
(* Properties of the archival job                                          *)
(***************************************************************************)
\* C14: an archival tick whose fetch gave a snapshot, with the store in
\* order, appends one row holding the snapshot's water level, temperature
\* and TDS; an archival tick whose fetch failed appends nothing.
C14_ArchiveAppendsSnapshot ==
    [][(last'.op = "archive" /\ last' # last) =>
         IF last'.fetch.kind = "ok"
         THEN ~last'.storeError =>
                 /\ Len(sensors_data') = Len(sensors_data) + 1
                 /\ LET row == sensors_data'[Len(sensors_data')]
                        data == last'.fetch.data
                    IN  /\ data.waterLevelInside \in Range(row)
                        /\ data.waterTemp \in Range(row)
                        /\ data.tds \in Range(row)
         ELSE sensors_data' = sensors_data]_vars

(***************************************************************************)
(* Properties of the device-token registration                             *)
(***************************************************************************)
Registered == last.op = "register-token"

RowsOf(table, token) == {i \in DOMAIN table : table[i].token = token}

\* C15: the table never holds two records with the same token; after a
\* registration that was answered as a success the table holds one record
\* of the token, with the worker of that registration (none when the body
\* names none), also when the topic subscription failed; a request without
\* a token is answered 400 with no query sent, no subscription tried and the
\* table as it was; and a registration repeated with the same body leaves
\* the table as the first one left it.
C15_RegistrationIdempotent ==
    /\ [](/\ \A i, j \in DOMAIN device_tokens :
                i # j => device_tokens[i].token # device_tokens[j].token
          /\ (Registered /\ Falsy(last.token)) =>
                last.status = 400 /\ last.queries = 0 /\ last.subscribe = "none"
          /\ (Registered /\ ~Falsy(last.token) /\ last.subscribe = "failed") =>
                last.status = 200
          /\ (Registered /\ last.status = 200) =>
                /\ Cardinality(RowsOf(device_tokens, last.token)) = 1
                /\ \A i \in RowsOf(device_tokens, last.token) :
                      device_tokens[i].worker_id =
                          IF Falsy(last.worker_id) THEN Null ELSE last.worker_id)
    /\ [][/\ (last'.op = "register-token" /\ last'.status # 200) =>
                device_tokens' = device_tokens
          /\ (Registered /\ last.status = 200 /\ last'.op = "register-token"
                /\ last'.status = 200 /\ last'.token = last.token
                /\ last'.worker_id = last.worker_id) =>
                device_tokens' = device_tokens]_vars

\* token 1 was registered, then token 2, then token 1 again for worker 2,
\* with the subscription failing: still one record of token 1, now of worker 2
C15_Witness ==
    /\ Registered /\ last.status = 200 /\ last.subscribe = "failed"
    /\ last.token = Token(1)
    /\ device_tokens = << [worker_id |-> Num(2), token |-> Token(1)],
                          [worker_id |-> Null, token |-> Token(2)] >>

(***************************************************************************)
(* Properties of the callbacks' interleavings                              *)
(***************************************************************************)
\* C16: with scan queries out together, acknowledge requests and manual
\* condition checks in any order, no feeding identifier has two reminders
\* in the list; a step that accepts an acknowledge of f leaves no reminder
\* of f; and a reminder enters the list only in the step of a query
\* callback, which builds it in that step from the callback's own
\* currentTime, never in the step of an acknowledge or of a check.
C16_NoLostAcknowledge ==
    /\ [](\A f \in FeedingIds :
            Cardinality({i \in DOMAIN reminders : reminders[i].feeding_ID = f}) <= 1)
    /\ [][/\ \A f \in FeedingIds : acked'[f] > acked[f] => ~Live(f)'
          /\ \A r \in Range(reminders') \ Range(reminders) :
                /\ inFlight # <<>> /\ inFlight' = Tail(inFlight)
                /\ r.reminder_time = Head(inFlight).currentTime
                /\ acked' = acked
                /\ emitted'[r.feeding_ID] = emitted[r.feeding_ID] + 1]_vars

\* feeding 1 was dispatched, two later scan queries are out together, and
\* the acknowledge of feeding 1 has just been accepted
C16_Witness ==
    /\ Len(inFlight) = 2
    /\ last.op = "acknowledge" /\ last.status = 200 /\ last.feeding_ID = Num(1)
    /\ emitted[1] = 1 /\ acked[1] = 1
    /\ ~Live(1)

(***************************************************************************)
(* Properties of the manual trigger                                        *)
(***************************************************************************)
\* C17: the manual trigger answers a cycle that ended in a timeout, in an
\* error of the fetch, of the threshold load or of the store, or without a
\* threshold row, with an error status, and not with the 200 and the body
\* it gives a cycle that ran to its end.
C17_TriggerReportsOutcome ==
    (last.op = "test-push"
        /\ last.report.outcome \in {"timeout", "error", "noThreshold"}) =>
        /\ last.status # 200
        /\ last.body # "triggered"

(***************************************************************************)
(* Properties of the lookahead window                                      *)
(***************************************************************************)
\* the time of day d seconds after t
Later(t, d) == (t + d) % Hms(24, 0, 0)

\* C18: a scan tick at an instant whose minute begins at t selects a
\* schedule row exactly when the row's time is t plus 0 to 15 minutes on
\* the clock, past midnight too; and for a selected row with no reminder in
\* the list it creates one unacknowledged reminder and dispatches it once.
C18_WindowSelection ==
    probe.asked =>
        LET t == FormatCurrentTime(probe.now)
            inWindow == \E d \in 0..LookaheadSeconds :
                            probe.row.feeding_time = Later(t, d)
        IN  /\ probe.results = (IF inWindow THEN <<probe.row>> ELSE <<>>)
            /\ probe.results # <<>> =>
                  /\ Len(probe.reminders) = 1
                  /\ ~probe.reminders[1].acknowledged
                  /\ probe.reminders[1].feeding_ID = probe.row.feeding_ID
                  /\ Len(probe.dispatches) = 1
                  /\ {"realtime", "push"} \subseteq probe.dispatches[1].attempted

(***************************************************************************)
(* Properties of the dispatch after an acknowledge                         *)
(***************************************************************************)
\* the step is a query callback without error whose rows name f
ScanReturns(f) ==
    /\ inFlight # <<>> /\ inFlight' = Tail(inFlight)
    /\ last'.op = "scan" /\ ~last'.error
    /\ f \in Range(last'.results)

\* C19: a step that accepts an acknowledge of f leaves the list without a
\* reminder of f; a scan whose query returns f while no reminder of f is in
\* the list, be it after an acknowledge, creates a reminder of f and emits
\* and pushes it once more; and a reminder of f stays in the list through
\* every step that is not an acknowledge of f, a scan that returns f in the
\* meantime, at whatever time of day, emitting and pushing nothing for f.
C19_RedispatchAfterAcknowledge ==
    [][\A f \in FeedingIds :
          /\ acked'[f] > acked[f] => ~Live(f)'
          /\ (ScanReturns(f) /\ ~Live(f)) =>
                /\ Live(f)'
                /\ emitted'[f] = emitted[f] + 1
                /\ pushed'[f] = pushed[f] + 1
                /\ \E i \in DOMAIN last'.dispatches : last'.dispatches[i].feeding_ID = f
          /\ (Live(f) /\ acked'[f] = acked[f]) =>
                /\ Live(f)'
                /\ ScanReturns(f) =>
                      /\ emitted'[f] = emitted[f] /\ pushed'[f] = pushed[f]
                      /\ \A i \in DOMAIN last'.dispatches :
                            last'.dispatches[i].feeding_ID # f]_vars

\* feeding 1 was dispatched, acknowledged, and dispatched again by the scan
\* that ran last
C19_Witness ==
    /\ last.op = "scan" /\ ~last.error
    /\ \E i \in DOMAIN last.dispatches : last.dispatches[i].feeding_ID = 1
    /\ emitted[1] = 2 /\ pushed[1] = 2 /\ acked[1] = 1
    /\ Live(1)
====
